---- MODULE Spec2Model ----
(***************************************************************************)
(* Bundle stock tracker of the BigCommerce plugin.                         *)
(*                                                                         *)
(*   src/pages/api/bundles/stock.ts   the API route GET /api/bundles/stock *)
(*   src/unnamed/part_000             the BundleStockPage React component  *)
(*                                                                         *)
(* The handler is an async function: it runs to completion between two     *)
(* awaits, so every action below is one awaited upstream call together     *)
(* with all the synchronous code that follows it up to the next await or   *)
(* to the response.  The upstream answers are inputs drawn with \E.        *)
(***************************************************************************)
EXTENDS Integers, Sequences, FiniteSets, TLC

\* ------------------------------------------------------------------ bounds

\* Pages of the Bundle category the upstream catalog can hold.
MaxPages == 2
\* Entities of one catalog that carry a linked_product_ids array.
MaxBundles == 2
\* Entities of one catalog whose linked_product_ids array is not empty.
MaxLinked == 1

\* ------------------------------------------------------- JavaScript values

\* A JavaScript number that may be non-finite, null or undefined.
Num(n) == [t |-> "number", v |-> n]
Infinity == [t |-> "Infinity", v |-> 0]
NaN == [t |-> "NaN", v |-> 0]
Null == [t |-> "null", v |-> 0]
Undefined == [t |-> "undefined", v |-> 0]

\* x || 0 for an inventory_level: undefined, null, NaN and 0 are falsy.
OrZero(x) == IF x.t = "number" /\ x.v # 0 THEN x.v ELSE 0

\* String(...).toLowerCase() over the strings the model uses.
ToLowerCase(s) ==
  CASE s = "Bundle" -> "bundle"
    [] s = "BUNDLE" -> "bundle"
    [] s = "Alpha" -> "alpha"
    [] s = "Beta" -> "beta"
    [] s = "BDL-1" -> "bdl-1"
    [] s = "BDL-2" -> "bdl-2"
    [] OTHER -> s

\* ---------------------------------------------------------- upstream data

\* A display name is the sequence of the parts that " - " joins.
VariantOne == [id |-> 1, sku |-> "V-1", inventory_level |-> Undefined,
               option_values |-> <<"Red">>]
VariantSeven == [id |-> 7, sku |-> "V-7", inventory_level |-> Num(2),
                 option_values |-> <<>>]

\* The product the catalog lists on page p.  Product 1 has two variants, the
\* first of which carries the product's own numeric id (product ids and variant
\* ids are separate sequences upstream).
CatalogProduct(p) ==
  IF p = 1
  THEN [id |-> 1, name |-> "Alpha", sku |-> "BDL-1", inventory_level |-> Num(5),
        variants |-> <<VariantOne, VariantSeven>>]
  ELSE [id |-> p, name |-> "Beta", sku |-> "BDL-2", inventory_level |-> Undefined,
        variants |-> <<>>]

\* response.data of GET /catalog/products?page=p when the category holds
\* `pages` pages (one product a page).
PageData(p, pages) == IF p <= pages THEN <<CatalogProduct(p)>> ELSE <<>>

\* data of GET /catalog/products/{productId}: product 3 has 3 in stock,
\* product 5 has 2, and product 6 reports no inventory_level.
ComponentProduct(productId) ==
  CASE productId = 3 ->
         [id |-> 3, name |-> "Gamma", sku |-> "C-3", inventory_level |-> Num(3)]
    [] productId = 5 ->
         [id |-> 5, name |-> "Delta", sku |-> "C-5", inventory_level |-> Num(2)]
    [] OTHER ->
         [id |-> productId, name |-> "Omega", sku |-> "C-6", inventory_level |-> Undefined]

\* data of GET /catalog/products/{productId}/variants/{variantId}: 5 in stock.
ComponentVariant(productId, variantId) ==
  [id |-> variantId, sku |-> "CV-4", inventory_level |-> Num(5),
   option_values |-> <<"Blue">>]

\* The lists GET /catalog/categories can answer with.
CategoryLists ==
  { <<>>,
    <<[id |-> 9, name |-> "Shoes"]>>,
    <<[id |-> 9, name |-> "Shoes"], [id |-> 4, name |-> "Bundle"]>>,
    <<[id |-> 4, name |-> "BUNDLE"], [id |-> 6, name |-> "bundle"]>> }

\* The raw elements a linked_product_ids array is made of; variantId 0 stands
\* for an absent one (absent, null and 0 are all falsy at the test of line 98).
RawReference(productId, variantId, quantity) ==
  [productId |-> productId, variantId |-> variantId, quantity |-> quantity]

\* The linked_product_ids arrays of the model: products and variants, absent
\* inventory, a reference listed twice, and quantities 0 and -1.
LinkedArrays ==
  LET product == RawReference(3, 0, 2)
      variant == RawReference(5, 4, 2)
      unstocked == RawReference(6, 0, 1)
  IN { <<product>>, <<variant>>,
       <<product, variant>>, <<variant, product>>, <<product, product>>,
       <<unstocked, product>>,
       <<RawReference(3, 0, 0)>>,
       <<RawReference(6, 0, 0), product>>,
       <<product, RawReference(5, 4, 0 - 1)>> }

\* The value of a linked_product_ids metafield: a JSON text.
JsonArray(items) == [json |-> "array", items |-> items]
Malformed == [json |-> "malformed", items |-> <<>>]

Metafield(namespace, key, value) ==
  [namespace |-> namespace, key |-> key, value |-> value]
\* The is_bundle entry; its value is a plain string, kept in the json field.
Flag(value) == Metafield("bundle", "is_bundle", [json |-> value, items |-> <<>>])

\* Metafield lists that make no bundle, whatever the linked value.
PlainMetafields ==
  LET l == JsonArray(<<>>) IN
  { <<>>,
    <<Flag("true")>>,
    <<Flag("false"), Metafield("bundle", "linked_product_ids", l)>>,
    <<Flag("True"), Metafield("bundle", "linked_product_ids", l)>>,
    <<Metafield("other", "is_bundle", Flag("true").value),
      Metafield("bundle", "linked_product_ids", l)>>,
    <<Flag("true"), Metafield("other", "linked_product_ids", l)>>,
    <<Metafield("bundle", "linked_product_ids", l)>> }

\* Metafield lists that flag the entity and carry the linked value, in both orders.
BundleMetafields(value) ==
  { <<Flag("true"), Metafield("bundle", "linked_product_ids", value)>>,
    <<Metafield("bundle", "linked_product_ids", value),
      Metafield("other", "is_bundle", Flag("false").value), Flag("true")>> }

\* What a metafield listing can answer with: a linked array only when the
\* catalog may hold one more (`array`), a non-empty one only when it may hold
\* one more of those (`linked`).
MetafieldLists(array, linked) ==
  PlainMetafields
  \cup BundleMetafields(Malformed)
  \cup (IF array THEN BundleMetafields(JsonArray(<<>>)) ELSE {})
  \cup (IF array /\ linked
        THEN UNION {BundleMetafields(JsonArray(items)) : items \in LinkedArrays}
        ELSE {})

\* ---------------------------------------------- handler: pure computations

\* Array.prototype.find, given the indices the callback accepts: the element
\* at the first of them, or Undefined.
First(list, hits) ==
  IF hits = {} THEN Undefined
  ELSE list[CHOOSE i \in hits : \A j \in hits : i <= j]

\* categories.find(c => String(c?.name || '').toLowerCase() === 'bundle')
FindBundleCategory(categories) ==
  First(categories,
        {i \in 1..Len(categories) : ToLowerCase(categories[i].name) = "bundle"})

\* response.meta?.pagination?.total_pages || 1
TotalPages(reported) == IF OrZero(reported) = 0 THEN 1 ELSE OrZero(reported)

\* hasMorePages = currentPage < totalPages
HasMorePagesWrong(page, totalPages) == page <= totalPages
HasMorePages(page, totalPages) == page < totalPages

\* allProducts.concat(response.data)
ConcatPage(products, data) == products \o data

\* metafields.find(f => f.key === 'is_bundle' && f.namespace === 'bundle')?.value === 'true'
IsBundleWrong(metafields) ==
  LET found == First(metafields,
                     {i \in 1..Len(metafields) : metafields[i].key = "is_bundle"})
  IN found # Undefined /\ found.value.json = "true"
IsBundle(metafields) ==
  LET found == First(metafields,
                     {i \in 1..Len(metafields) :
                        metafields[i].key = "is_bundle" /\ metafields[i].namespace = "bundle"})
  IN found # Undefined /\ found.value.json = "true"

\* metafields.find(f => f.key === 'linked_product_ids' && f.namespace === 'bundle')
LinkedField(metafields) ==
  First(metafields,
        {i \in 1..Len(metafields) :
           metafields[i].key = "linked_product_ids" /\ metafields[i].namespace = "bundle"})

\* if (isBundle) { if (linkedField) { ... } }: the entity is resolved as a bundle.
ProducesRecord(metafields) ==
  IsBundle(metafields) /\ LinkedField(metafields) # Undefined

\* JSON.parse(linkedField.value): does it throw, and what it yields.
JsonParseThrows(value) == value.json # "array"
JsonParse(value) == value.items

\* parseLinkedProduct of @lib/bundle-calculator: the reference's productId, its
\* optional variantId and its quantity, as the array element carries them.
parseLinkedProduct(linkedProduct) ==
  [productId |-> linkedProduct.productId,
   variantId |-> linkedProduct.variantId,
   quantity |-> linkedProduct.quantity]

\* Math.floor(stock / quantity) on JavaScript numbers, stock >= 0: a division by
\* zero is Infinity (NaN for 0 / 0), and floor rounds toward minus infinity.
FloorDiv(stock, quantity) ==
  IF quantity > 0 THEN Num(stock \div quantity)
  ELSE IF quantity = 0 THEN (IF stock = 0 THEN NaN ELSE Infinity)
  ELSE Num(0 - ((stock + (0 - quantity) - 1) \div (0 - quantity)))

\* variant.option_values?.map(ov => ov.label).join(' - ') || 'Variant'
VariantName(variant) ==
  IF variant.option_values = <<>> THEN <<"Variant">> ELSE variant.option_values

\* components.push({...}) of the variant branch (product level, lines 109-117).
VariantComponent(ref, variant, parentProduct) ==
  [productId |-> ref.productId, variantId |-> ref.variantId,
   name |-> <<parentProduct.name>> \o VariantName(variant),
   sku |-> variant.sku, quantity |-> ref.quantity,
   stock |-> OrZero(variant.inventory_level),
   maxBundles |-> FloorDiv(OrZero(variant.inventory_level), ref.quantity)]

\* components.push({...}) of the product branch (product level, lines 122-129);
\* the pushed object has no variantId.
ProductComponent(ref, componentProduct) ==
  [productId |-> ref.productId, variantId |-> 0,
   name |-> <<componentProduct.name>>,
   sku |-> componentProduct.sku, quantity |-> ref.quantity,
   stock |-> OrZero(componentProduct.inventory_level),
   maxBundles |-> FloorDiv(OrZero(componentProduct.inventory_level), ref.quantity)]

\* components.push({...}) of the catch block (product level, lines 134-142).
ErrorComponentWrong(ref) ==
  [productId |-> ref.productId, variantId |-> 0,
   name |-> <<"Unknown Component">>, sku |-> "N/A", quantity |-> 0,
   stock |-> 0, maxBundles |-> Num(0)]
ErrorComponent(ref) ==
  [productId |-> ref.productId, variantId |-> ref.variantId,
   name |-> <<"Unknown Component">>, sku |-> "N/A", quantity |-> ref.quantity,
   stock |-> 0, maxBundles |-> Num(0)]

\* The same three pushes in the variant-level copy of the loop (lines 190-221).
VariantComponentV(ref, compVariant, parentProduct) ==
  [productId |-> ref.productId, variantId |-> ref.variantId,
   name |-> <<parentProduct.name>> \o VariantName(compVariant),
   sku |-> compVariant.sku, quantity |-> ref.quantity,
   stock |-> OrZero(compVariant.inventory_level),
   maxBundles |-> FloorDiv(OrZero(compVariant.inventory_level), ref.quantity)]

ProductComponentV(ref, componentProduct) ==
  [productId |-> ref.productId, variantId |-> 0,
   name |-> <<componentProduct.name>>,
   sku |-> componentProduct.sku, quantity |-> ref.quantity,
   stock |-> OrZero(componentProduct.inventory_level),
   maxBundles |-> FloorDiv(OrZero(componentProduct.inventory_level), ref.quantity)]

ErrorComponentV(ref) ==
  [productId |-> ref.productId, variantId |-> ref.variantId,
   name |-> <<"Unknown Component">>, sku |-> "N/A", quantity |-> ref.quantity,
   stock |-> 0, maxBundles |-> Num(0)]

\* bundles.push({...}) for a bundle product (lines 146-152).
ProductBundle(product, comps) ==
  [id |-> product.id, name |-> <<product.name>>, sku |-> product.sku,
   stock |-> OrZero(product.inventory_level), components |-> comps]

\* bundles.push({...}) for a bundle variant (lines 225-235).
VariantBundle(product, variant, comps) ==
  [id |-> variant.id, name |-> <<product.name>> \o VariantName(variant),
   sku |-> variant.sku, stock |-> OrZero(variant.inventory_level),
   components |-> comps]

\* bundles.push(record)
PushBundleWrong(list, record) == <<record>> \o list
PushBundle(list, record) == Append(list, record)

\* JSON.stringify of a number: Infinity and NaN are written as null.
JsonNumber(x) == IF x.t = "number" THEN x ELSE Null

\* res.json({ bundles }): the payload as the client parses it.
JsonBundles(list) ==
  [i \in 1..Len(list) |->
     [list[i] EXCEPT !.components =
        [j \in 1..Len(list[i].components) |->
           [list[i].components[j] EXCEPT !.maxBundles = JsonNumber(@)]]]]

\* ------------------------------------------------------------------- state

VARIABLES
  \* the request and the handler's position and locals (stock.ts)
  method, upstreamPages, pc, bundleCategory, allProducts, currentPage, pi, vi,
  linkedProductIds, ci, components, compVariant, bundles,
  \* the response: status code, payload, number of res.json calls
  status, body, sent,
  \* the page component's state (part_000)
  isLoading, error, uiBundles, searchQuery,
  \* history of what the upstream was asked and what it answered
  sessionOutcome, pageRequests, reported, catalogTouched, scanStarted,
  fatal, scanned, sawFlagOnly, origin, outcomes

respVars == <<status, body, sent>>
loopVars == <<linkedProductIds, ci, components, compVariant, outcomes>>
pageVars == <<bundleCategory, allProducts, currentPage, pageRequests, reported>>
scanVars == <<bundles, origin, scanned, sawFlagOnly>>
clientVars == <<isLoading, error, uiBundles, searchQuery>>
vars == <<method, upstreamPages, pc, pi, vi, respVars, loopVars, pageVars, scanVars, clientVars,
          sessionOutcome, catalogTouched, scanStarted, fatal>>

Methods == {"GET", "POST"}
NoBody == [message |-> "", hasBundles |-> FALSE, bundles |-> <<>>]
Message(text) == [message |-> text, hasBundles |-> FALSE, bundles |-> <<>>]
BundlesBody(list) == [message |-> "", hasBundles |-> TRUE, bundles |-> list]

Init ==
  /\ method \in Methods
  /\ upstreamPages \in 0..MaxPages
  /\ pc = "start"
  /\ bundleCategory = 0 /\ allProducts = <<>> /\ currentPage = 1
  /\ pi = 0 /\ vi = 0
  /\ linkedProductIds = <<>> /\ ci = 0 /\ components = <<>>
  /\ compVariant = Undefined /\ bundles = <<>>
  /\ status = 0 /\ body = NoBody /\ sent = 0
  /\ isLoading = TRUE /\ error = "" /\ uiBundles = <<>> /\ searchQuery = ""
  /\ sessionOutcome = "pending" /\ pageRequests = <<>> /\ reported = <<>>
  /\ catalogTouched = FALSE /\ scanStarted = FALSE
  /\ fatal = "" /\ scanned = <<>> /\ sawFlagOnly = FALSE
  /\ origin = <<>> /\ outcomes = <<>>

\* ------------------------------------------------------ handler: responses

\* res.status(code).json(payload); the handler has nothing left to run.
Respond(code, payload) ==
  /\ pc' = "done"
  /\ status' = code
  /\ body' = payload
  /\ sent' = sent + 1

\* The catch block of the handler: log, then 500 with a generic message.
CatchAllWrong == Respond(200, BundlesBody(JsonBundles(bundles)))
CatchAll == Respond(500, Message("Error fetching bundle stock"))

\* An awaited call rejected (or JSON.parse threw) outside the component try.
Fatal(kind) ==
  /\ fatal' = kind
  /\ CatchAll
  /\ UNCHANGED <<method, upstreamPages, pi, vi, loopVars, pageVars, scanVars, clientVars,
                 sessionOutcome, scanStarted>>

\* ------------------------------------------------- handler: the scan loops

\* Head of `for (const product of products)`; after the loop, the 200 response.
NextProduct(i, products, list) ==
  /\ pi' = i
  /\ vi' = 0
  /\ IF i > Len(products)
     THEN Respond(200, BundlesBody(JsonBundles(list)))
     ELSE pc' = "productMetafields" /\ UNCHANGED respVars

\* Head of `for (const variant of product.variants)`, guarded by
\* product.variants?.length > 0.
NextVariant(i, v, list) ==
  IF v > Len(allProducts[i].variants)
  THEN NextProduct(i + 1, allProducts, list)
  ELSE pc' = "variantMetafields" /\ pi' = i /\ vi' = v /\ UNCHANGED respVars

\* The record pushed when the component loop of the current entity ends.
CurrentBundle(comps) ==
  IF vi = 0
  THEN ProductBundle(allProducts[pi], comps)
  ELSE VariantBundle(allProducts[pi], allProducts[pi].variants[vi], comps)

\* Head of `for (const linkedProduct of linkedProductIds)` with c the next
\* index; after the loop the bundle record is pushed and the scan goes on.
NextComponent(c, refs, comps, outs) ==
  IF c > Len(refs)
  THEN /\ bundles' = PushBundle(bundles, CurrentBundle(comps))
       /\ origin' = Append(origin, [pi |-> pi, vi |-> vi, refs |-> refs, outcomes |-> outs])
       /\ linkedProductIds' = <<>> /\ ci' = 0 /\ components' = <<>>
       /\ outcomes' = <<>>
       /\ NextVariant(pi, vi + 1, bundles')
  ELSE /\ pc' = "component"
       /\ linkedProductIds' = refs /\ ci' = c /\ components' = comps
       /\ outcomes' = outs
       /\ UNCHANGED <<pi, vi, bundles, origin, respVars>>

\* Whether the catalog may still hold an entity with a linked array, and one
\* with a non-empty linked array.
MoreBundles(list) == Len(list) < MaxBundles
MoreLinked(list) ==
  Cardinality({i \in 1..Len(list) : Len(list[i].components) > 0}) < MaxLinked

\* What the claim-level reading of a metafield list says about the entity.
HasTrueFlag(metafields) ==
  \E i \in 1..Len(metafields) :
    /\ metafields[i].namespace = "bundle" /\ metafields[i].key = "is_bundle"
    /\ metafields[i].value.json = "true"
HasLinkedEntry(metafields) ==
  \E i \in 1..Len(metafields) :
    metafields[i].namespace = "bundle" /\ metafields[i].key = "linked_product_ids"

\* The code after a metafield listing answered, for the current entity.
AfterMetafields(metafields) ==
  /\ scanned' = Append(scanned, [pi |-> pi, vi |-> vi,
                                 bundle |-> HasTrueFlag(metafields) /\ HasLinkedEntry(metafields)])
  /\ sawFlagOnly' = (sawFlagOnly \/ (HasTrueFlag(metafields) /\ ~HasLinkedEntry(metafields)))
  /\ IF ProducesRecord(metafields)
     THEN IF JsonParseThrows(LinkedField(metafields).value)
          THEN /\ fatal' = "json"
               /\ CatchAll
               /\ UNCHANGED <<pi, vi, loopVars, bundles, origin>>
          ELSE /\ fatal' = fatal
               /\ compVariant' = compVariant
               /\ NextComponent(1, JsonParse(LinkedField(metafields).value), <<>>, <<>>)
     ELSE /\ fatal' = fatal
          /\ NextVariant(pi, vi + 1, bundles)
          /\ UNCHANGED <<loopVars, bundles, origin>>

\* ------------------------------------------------------- handler: actions

\* if (req.method !== 'GET') return res.status(405)...
RejectMethod ==
  /\ pc = "start"
  /\ method # "GET"
  /\ Respond(405, Message("Method not allowed"))
  /\ UNCHANGED <<method, upstreamPages, pi, vi, loopVars, pageVars, scanVars, clientVars,
                 sessionOutcome, catalogTouched, scanStarted, fatal>>

\* What `await getSession(req)` can do: resolve to a session, resolve to
\* nothing, or reject.
SessionOutcomes == {"session", "none", "throws"}

\* const session = await getSession(req); if (!session) return 401
GetSession ==
  /\ pc = "start"
  /\ method = "GET"
  /\ \E outcome \in SessionOutcomes :
       /\ sessionOutcome' = outcome
       /\ CASE outcome = "session" -> pc' = "categories" /\ UNCHANGED respVars
            [] outcome = "none" -> Respond(401, Message("Unauthorized"))
            [] outcome = "throws" -> CatchAll
  /\ UNCHANGED <<method, upstreamPages, pi, vi, loopVars, pageVars, scanVars, clientVars,
                 catalogTouched, scanStarted, fatal>>

\* await bc.get('/catalog/categories?limit=250') and the category lookup.
FetchCategories ==
  /\ pc = "categories"
  /\ catalogTouched' = TRUE
  /\ \/ Fatal("categories")
     \/ \E categories \in CategoryLists :
          LET bundleCategoryFound == FindBundleCategory(categories) IN
          /\ IF bundleCategoryFound = Undefined
             THEN /\ Respond(200, BundlesBody(<<>>))
                  /\ UNCHANGED bundleCategory
             ELSE /\ pc' = "pages"
                  /\ bundleCategory' = bundleCategoryFound.id
                  /\ UNCHANGED respVars
          /\ UNCHANGED <<method, upstreamPages, pi, vi, loopVars, allProducts, currentPage,
                         pageRequests, reported, scanVars, clientVars,
                         sessionOutcome, scanStarted, fatal>>

\* One iteration of `while (hasMorePages)`: await the page, concat, advance.
FetchPage ==
  /\ pc = "pages"
  /\ pageRequests' = Append(pageRequests, currentPage)
  /\ catalogTouched' = TRUE
  /\ \/ /\ fatal' = "page"
        /\ CatchAll
        /\ UNCHANGED <<method, upstreamPages, pi, vi, loopVars, bundleCategory, allProducts,
                       currentPage, reported, scanVars, clientVars,
                       sessionOutcome, scanStarted>>
     \/ \E total \in {Num(upstreamPages)} :
          /\ reported' = Append(reported, total)
          /\ allProducts' = ConcatPage(allProducts, PageData(currentPage, upstreamPages))
          /\ currentPage' = currentPage + 1
          /\ IF HasMorePages(currentPage, TotalPages(total))
             THEN pc' = "pages" /\ UNCHANGED <<pi, vi, respVars>>
             ELSE NextProduct(1, allProducts', bundles)
          /\ UNCHANGED <<method, upstreamPages, loopVars, bundleCategory, scanVars, clientVars,
                         sessionOutcome, scanStarted, fatal>>

\* await bc.get(`/catalog/products/${product.id}/metafields`) and the test of
\* the product-level flag.
FetchProductMetafields ==
  /\ pc = "productMetafields"
  /\ scanStarted' = TRUE
  /\ \/ /\ fatal' = "metafields"
        /\ CatchAll
        /\ UNCHANGED <<pi, vi, loopVars, scanVars>>
     \/ \E productMetafields \in MetafieldLists(MoreBundles(bundles), MoreLinked(bundles)) :
          AfterMetafields(productMetafields)
  /\ UNCHANGED <<method, upstreamPages, pageVars, clientVars, sessionOutcome, catalogTouched>>

\* await bc.get(`/catalog/products/${product.id}/variants/${variant.id}/metafields`)
\* and the test of the variant-level flag.
FetchVariantMetafields ==
  /\ pc = "variantMetafields"
  /\ scanStarted' = TRUE
  /\ \/ /\ fatal' = "metafields"
        /\ CatchAll
        /\ UNCHANGED <<pi, vi, loopVars, scanVars>>
     \/ \E variantMetafields \in MetafieldLists(MoreBundles(bundles), MoreLinked(bundles)) :
          AfterMetafields(variantMetafields)
  /\ UNCHANGED <<method, upstreamPages, pageVars, clientVars, sessionOutcome, catalogTouched>>

\* The reference the component loop is at.
CurrentRef == parseLinkedProduct(linkedProductIds[ci])

\* components.push(component) and the next turn of the component loop.
PushComponent(component, outcome) ==
  /\ compVariant' = Undefined
  /\ NextComponent(ci + 1, linkedProductIds, Append(components, component),
                   Append(outcomes, outcome))

\* What a component step leaves alone.
ComponentFrame ==
  UNCHANGED <<method, upstreamPages, pageVars, scanned, sawFlagOnly, clientVars, sessionOutcome,
              catalogTouched, scanStarted, fatal>>

\* Product-level loop, first awaited call of the try block: the variant when
\* the reference has a variantId, the product otherwise.
FetchComponent ==
  /\ pc = "component" /\ vi = 0
  /\ \/ PushComponent(ErrorComponent(CurrentRef), "fail")
     \/ /\ CurrentRef.variantId # 0
        /\ pc' = "parent"
        /\ compVariant' = ComponentVariant(CurrentRef.productId, CurrentRef.variantId)
        /\ UNCHANGED <<pi, vi, linkedProductIds, ci, components, outcomes,
                       bundles, origin, respVars>>
     \/ /\ CurrentRef.variantId = 0
        /\ PushComponent(
             ProductComponent(CurrentRef, ComponentProduct(CurrentRef.productId)), "ok")
  /\ ComponentFrame

\* Product-level loop, the parent product fetched after the variant.
FetchParent ==
  /\ pc = "parent" /\ vi = 0
  /\ \/ PushComponent(ErrorComponent(CurrentRef), "fail")
     \/ PushComponent(
          VariantComponent(CurrentRef, compVariant, ComponentProduct(CurrentRef.productId)),
          "ok")
  /\ ComponentFrame

\* Variant-level copy of the loop, first awaited call of the try block.
FetchComponentV ==
  /\ pc = "component" /\ vi > 0
  /\ \/ PushComponent(ErrorComponentV(CurrentRef), "fail")
     \/ /\ CurrentRef.variantId # 0
        /\ pc' = "parent"
        /\ compVariant' = ComponentVariant(CurrentRef.productId, CurrentRef.variantId)
        /\ UNCHANGED <<pi, vi, linkedProductIds, ci, components, outcomes,
                       bundles, origin, respVars>>
     \/ /\ CurrentRef.variantId = 0
        /\ PushComponent(
             ProductComponentV(CurrentRef, ComponentProduct(CurrentRef.productId)), "ok")
  /\ ComponentFrame

\* Variant-level copy of the loop, the parent product fetched after the variant.
FetchParentV ==
  /\ pc = "parent" /\ vi > 0
  /\ \/ PushComponent(ErrorComponentV(CurrentRef), "fail")
     \/ PushComponent(
          VariantComponentV(CurrentRef, compVariant, ComponentProduct(CurrentRef.productId)),
          "ok")
  /\ ComponentFrame

\* ------------------------------------------------ the page (part_000)

\* The search texts typed in the model; "" is the empty input.
Queries == {"", "alpha"}

\* fetchBundleStock: the page's GET has been answered.  A non-ok response
\* becomes the error; otherwise setBundles(data.bundles || []).
FetchBundleStock ==
  /\ pc = "done" /\ method = "GET"
  /\ isLoading
  /\ isLoading' = FALSE
  /\ IF status = 200
     THEN /\ uiBundles' = [i \in 1..Len(body.bundles) |->
                             [bundle |-> body.bundles[i], isExpanded |-> FALSE]]
          /\ error' = error
     ELSE /\ error' = body.message
          /\ uiBundles' = uiBundles
  /\ UNCHANGED <<method, upstreamPages, pc, pi, vi, respVars, loopVars, pageVars, scanVars,
                 searchQuery, sessionOutcome, catalogTouched, scanStarted, fatal>>

\* The filter of getTableItems: the lower-cased name or sku includes the
\* lower-cased query.  A name is kept as its " - "-joined parts, and the
\* queries of the model are whole parts.
MatchesQuery(bundle, query) ==
  \/ query = ""
  \/ \E k \in 1..Len(bundle.name) : ToLowerCase(bundle.name[k]) = ToLowerCase(query)
  \/ ToLowerCase(bundle.sku) = ToLowerCase(query)

\* toggleExpand(bundleId): prev.map(bundle => bundle.id === bundleId ? flipped : bundle)
toggleExpand(list, bundleId) ==
  [i \in 1..Len(list) |->
     IF list[i].bundle.id = bundleId
     THEN [list[i] EXCEPT !.isExpanded = ~list[i].isExpanded]
     ELSE list[i]]

\* The table is rendered: loaded, no error, at least one bundle.
TableShown == ~isLoading /\ error = "" /\ Len(uiBundles) > 0

\* A click on the expand button of a rendered bundle row.
ToggleExpand ==
  /\ TableShown
  /\ \E i \in 1..Len(uiBundles) :
       /\ MatchesQuery(uiBundles[i].bundle, searchQuery)
       /\ uiBundles' = toggleExpand(uiBundles, uiBundles[i].bundle.id)
  /\ UNCHANGED <<method, upstreamPages, pc, pi, vi, respVars, loopVars, pageVars, scanVars,
                 isLoading, error, searchQuery,
                 sessionOutcome, catalogTouched, scanStarted, fatal>>

\* onChange of the search input: setSearchQuery(e.target.value)
SetSearchQuery ==
  /\ ~isLoading /\ error = ""
  /\ \E query \in Queries : searchQuery' = query /\ query # searchQuery
  /\ UNCHANGED <<method, upstreamPages, pc, pi, vi, respVars, loopVars, pageVars, scanVars,
                 isLoading, error, uiBundles,
                 sessionOutcome, catalogTouched, scanStarted, fatal>>

\* Number(x) as Math.min applies it to a parsed JSON number: null is 0.
ToNumber(x) == IF x.t = "number" THEN x.v ELSE 0

\* bundle.components.length > 0 ? Math.min(...maxBundles) : 0
MinMaxBundles(bundle) ==
  IF Len(bundle.components) > 0
  THEN LET values == {ToNumber(bundle.components[j].maxBundles) :
                        j \in 1..Len(bundle.components)}
       IN Num(CHOOSE m \in values : \A n \in values : m <= n)
  ELSE Num(0)

\* const isLimiting = component.maxBundles === minMaxBundles
IsLimiting(bundle, idx) == bundle.components[idx].maxBundles = MinMaxBundles(bundle)

\* The component rows getTableItems adds for one bundle entry.
ComponentRows(entry) ==
  IF entry.isExpanded
  THEN [idx \in 1..Len(entry.bundle.components) |->
          [type |-> "component", id |-> <<entry.bundle.id, idx>>,
           maxBundles |-> entry.bundle.components[idx].maxBundles,
           isLimiting |-> IsLimiting(entry.bundle, idx)]]
  ELSE <<>>

\* getTableItems(): per bundle passing the filter, its row and then its
\* component rows when it is expanded.
RECURSIVE TableItemsFrom(_)
TableItemsFrom(i) ==
  IF i > Len(uiBundles) THEN <<>>
  ELSE IF MatchesQuery(uiBundles[i].bundle, searchQuery)
  THEN <<[type |-> "bundle", id |-> <<uiBundles[i].bundle.id, 0>>,
          maxBundles |-> Null, isLimiting |-> FALSE]>>
       \o ComponentRows(uiBundles[i]) \o TableItemsFrom(i + 1)
  ELSE TableItemsFrom(i + 1)
getTableItems == TableItemsFrom(1)

\* -------------------------------------------------------- specification

Next ==
  \/ RejectMethod
  \/ GetSession
  \/ FetchCategories
  \/ FetchPage
  \/ FetchProductMetafields
  \/ FetchVariantMetafields
  \/ FetchComponent
  \/ FetchParent
  \/ FetchComponentV
  \/ FetchParentV
  \/ FetchBundleStock
  \/ ToggleExpand
  \/ SetSearchQuery

Spec == Init /\ [][Next]_vars

\* ------------------------------------------------- vocabulary of the claims

\* The catalog entity a bundle record was made for: product pi, or its variant vi.
EntityId(o) ==
  IF o.vi = 0 THEN allProducts[o.pi].id ELSE allProducts[o.pi].variants[o.vi].id

\* The upstream record a linked reference points at.
Target(ref) ==
  IF ref.variantId # 0 THEN ComponentVariant(ref.productId, ref.variantId)
  ELSE ComponentProduct(ref.productId)

\* The catalog iteration order: a product before its variants, those in list
\* order, and all of them before the next product.
Before(a, b) == a.pi < b.pi \/ (a.pi = b.pi /\ a.vi < b.vi)

\* Every entity of the fetched catalog, in iteration order.
RECURSIVE EntitiesFrom(_)
EntitiesFrom(p) ==
  IF p > Len(allProducts) THEN <<>>
  ELSE <<<<p, 0>>>> \o [v \in 1..Len(allProducts[p].variants) |-> <<p, v>>]
       \o EntitiesFrom(p + 1)

\* The entities whose scan is over: all those scanned but the one whose
\* components are being resolved.
ScannedDone ==
  IF pc \in {"component", "parent"} THEN SubSeq(scanned, 1, Len(scanned) - 1)
  ELSE scanned

\* The entities among `seq` whose metafields hold both entries of the contract.
FlaggedKeys(seq) ==
  LET Holds(r) == r.bundle
      f == SelectSeq(seq, Holds)
  IN [i \in 1..Len(f) |-> <<f[i].pi, f[i].vi>>]

IsPlaceholder(component, ref) ==
  /\ component.name = <<"Unknown Component">>
  /\ component.sku = "N/A"
  /\ component.stock = 0
  /\ component.maxBundles = Num(0)
  /\ component.productId = ref.productId
  /\ component.variantId = ref.variantId
  /\ component.quantity = ref.quantity

IsResolved(component, ref) ==
  /\ component.name # <<"Unknown Component">>
  /\ component.sku = Target(ref).sku
  /\ component.stock = OrZero(Target(ref).inventory_level)
  /\ component.productId = ref.productId
  /\ component.quantity = ref.quantity

\* Component j is the placeholder when its fetch failed and the resolved
\* reference j otherwise, whatever happened to the other components.
Isolated(comps, refs, outs) ==
  /\ Len(comps) = Len(outs)
  /\ Len(outs) <= Len(refs)
  /\ \A j \in 1..Len(comps) :
       IF outs[j] = "fail" THEN IsPlaceholder(comps[j], refs[j])
       ELSE IsResolved(comps[j], refs[j])

SomeFetchFailed ==
  \/ \E j \in 1..Len(outcomes) : outcomes[j] = "fail"
  \/ \E i \in 1..Len(origin) : \E j \in 1..Len(origin[i].outcomes) :
       origin[i].outcomes[j] = "fail"

\* ------------------------------------------------------------------ claims

\* C1: a failed detail fetch of a linked component (variant, parent product or
\* product) does not fail the request: the component list gets, at the same
\* position, the "Unknown Component" placeholder with sku "N/A", stock 0,
\* maxBundles 0 and the reference's own productId, variantId and quantity;
\* the other components are resolved as without the failure, the bundle
\* record is produced with one component per reference, and the response that
\* ends the scan is the 200 carrying those records.
C1_ComponentFailureIsolated ==
  /\ Len(bundles) = Len(origin)
  /\ \A i \in 1..Len(bundles) :
       /\ Len(bundles[i].components) = Len(origin[i].refs)
       /\ Isolated(bundles[i].components, origin[i].refs, origin[i].outcomes)
  /\ Isolated(components, linkedProductIds, outcomes)
  /\ (SomeFetchFailed /\ fatal = "" => status \in {0, 200})
  /\ (SomeFetchFailed /\ fatal = "" /\ pc = "done" =>
        status = 200 /\ body.hasBundles /\ body.bundles = JsonBundles(bundles))

\* C1 witness: a 200 response with a bundle that holds both a placeholder and
\* a resolved component.
C1_Witness ==
  /\ pc = "done" /\ status = 200
  /\ \E i \in 1..Len(origin) : \E j, k \in 1..Len(origin[i].outcomes) :
       /\ origin[i].outcomes[j] = "fail" /\ origin[i].outcomes[k] = "ok"
       /\ body.bundles[i].components[j].name = <<"Unknown Component">>

\* C2: when the category listing, a page fetch, a metafield fetch or the JSON
\* parse of a linked_product_ids value fails, the request ends with exactly
\* one response, a 500 with a message and without a bundle list: the records
\* accumulated before the failure are not returned, to the page either.
C2_FatalFailureIs500 ==
  fatal # "" =>
    /\ pc = "done"
    /\ status = 500
    /\ sent = 1
    /\ body.message # ""
    /\ ~body.hasBundles /\ body.bundles = <<>>
    /\ uiBundles = <<>>

\* C2 witness: the parse of a linked value failed after a bundle record had
\* been accumulated.
C2_Witness == fatal = "json" /\ Len(bundles) > 0 /\ status = 500

\* C3: a GET whose session resolution returns nothing or fails is answered 401
\* with a message, and no upstream catalog request is issued.
C3_NoSessionIs401 ==
  (pc = "done" /\ sessionOutcome \in {"none", "throws"}) =>
    /\ status = 401
    /\ body.message # ""
    /\ ~catalogTouched /\ ~scanStarted /\ pageRequests = <<>>

\* C4: with a Bundle category, total_pages = N >= 1 reported and every page
\* fetch succeeding, the page requests are exactly those for pages 1, 2, ..., N
\* in that order, one at a time; the product list is the concatenation of the
\* pages in page order; and no metafield or component request is issued before
\* page N has been consumed.
C4_Pagination ==
  (upstreamPages >= 1 /\ \A k \in 1..Len(reported) : reported[k] = Num(upstreamPages)) =>
    /\ \A k \in 1..Len(pageRequests) : pageRequests[k] = k
    /\ Len(pageRequests) <= upstreamPages
    /\ Len(reported) <= Len(pageRequests)
    /\ Len(pageRequests) <= Len(reported) + 1
    /\ (Len(reported) < Len(pageRequests) => fatal = "page")
    /\ Len(allProducts) = Len(reported)
    /\ \A k \in 1..Len(allProducts) : allProducts[k] = CatalogProduct(k)
    /\ (scanStarted \/ pi >= 1 =>
          Len(reported) = upstreamPages /\ Len(pageRequests) = upstreamPages)

\* C4 witness: two pages reported, both fetched, and the scan under way.
C4_Witness ==
  /\ upstreamPages = 2 /\ scanStarted
  /\ pageRequests = <<1, 2>>
  /\ Len(allProducts) = 2

\* C5: in a 200 response, a component whose reference has quantity > 0 and
\* whose fetch succeeded has stock = the fetched inventory level of the variant
\* (or of the product when no variantId), 0 when absent, and maxBundles =
\* floor(stock / quantity); and every component's maxBundles is a non-negative
\* integer.
C5_MaxBundlesIsFloor ==
  (pc = "done" /\ status = 200) =>
    \A i \in 1..Len(body.bundles) : \A j \in 1..Len(body.bundles[i].components) :
      LET c == body.bundles[i].components[j]
          ref == origin[i].refs[j]
      IN /\ (ref.quantity > 0 /\ origin[i].outcomes[j] = "ok" =>
               /\ c.stock = OrZero(Target(ref).inventory_level)
               /\ c.maxBundles = Num(c.stock \div ref.quantity))
         /\ c.maxBundles.t = "number"
         /\ c.maxBundles.v >= 0

\* C6: a reference whose quantity is <= 0 yields maxBundles = 0, and no
\* component carries a maxBundles that is infinite, not a number or negative.
C6_NonPositiveQuantityClamped ==
  LET Clamped(c) ==
        /\ (c.quantity <= 0 => c.maxBundles = Num(0))
        /\ c.maxBundles.t = "number"
        /\ c.maxBundles.v >= 0
  IN /\ \A j \in 1..Len(components) : Clamped(components[j])
     /\ \A i \in 1..Len(bundles) : \A j \in 1..Len(bundles[i].components) :
          Clamped(bundles[i].components[j])

\* C7: an entity (a product, or each of its variants) gets a bundle record if
\* and only if its own metafields hold bundle/is_bundle = "true" and a
\* bundle/linked_product_ids entry; an entity flagged without the linked entry
\* gets no record and no error, and the scan goes on to the end of the catalog.
C7_RecordIffFlaggedAndLinked ==
  fatal = "" =>
    /\ Len(bundles) = Len(origin)
    /\ [i \in 1..Len(origin) |-> <<origin[i].pi, origin[i].vi>>] = FlaggedKeys(ScannedDone)
    /\ \A i \in 1..Len(bundles) : bundles[i].id = EntityId(origin[i])
    /\ (sawFlagOnly => status \in {0, 200})
    /\ (pc = "done" /\ status = 200 /\ bundleCategory # 0 =>
          /\ [i \in 1..Len(scanned) |-> <<scanned[i].pi, scanned[i].vi>>] = EntitiesFrom(1)
          /\ Len(body.bundles) = Len(origin)
          /\ \A i \in 1..Len(origin) : body.bundles[i].id = EntityId(origin[i]))

\* C7 witness: a 200 response after an entity flagged without a linked entry
\* was passed over and a variant further on produced a record.
C7_Witness ==
  /\ pc = "done" /\ status = 200
  /\ sawFlagOnly
  /\ \E i \in 1..Len(origin) : origin[i].vi > 0
  /\ Len(scanned) > Len(body.bundles)

\* C8: the records of a 200 response are in catalog iteration order (products
\* in page order, a product's own record before those of its variants, these
\* in variant-list order), each with the id of its entity, and each component
\* list follows the parsed linked_product_ids array, one entry per reference,
\* a reference listed twice included.
C8_CatalogOrder ==
  (pc = "done" /\ status = 200) =>
    /\ Len(body.bundles) = Len(origin)
    /\ \A i, j \in 1..Len(origin) : i < j => Before(origin[i], origin[j])
    /\ \A i \in 1..Len(origin) :
         /\ body.bundles[i].id = EntityId(origin[i])
         /\ body.bundles[i].sku =
              (IF origin[i].vi = 0 THEN allProducts[origin[i].pi].sku
               ELSE allProducts[origin[i].pi].variants[origin[i].vi].sku)
         /\ Len(body.bundles[i].components) = Len(origin[i].refs)
         /\ \A j \in 1..Len(origin[i].refs) :
              /\ body.bundles[i].components[j].productId = origin[i].refs[j].productId
              /\ body.bundles[i].components[j].quantity = origin[i].refs[j].quantity

\* C8 witness: a product's record followed by the record of one of its
\* variants, one of the two listing the same reference twice.
C8_Witness ==
  /\ pc = "done" /\ status = 200
  /\ Len(body.bundles) = 2
  /\ origin[1].vi = 0 /\ origin[2].vi > 0 /\ origin[1].pi = origin[2].pi
  /\ \E i \in 1..2 :
       /\ Len(origin[i].refs) = 2 /\ origin[i].refs[1] = origin[i].refs[2]
       /\ Len(body.bundles[i].components) = 2

\* C9: a toggle flips the expanded state of the toggled record only, also when
\* a product-level and a variant-level record carry the same numeric id: no
\* step of the loaded page changes the expanded state of two records.
C9_TogglePerBundle ==
  [][(~isLoading /\ ~isLoading') =>
       Cardinality({i \in 1..Len(uiBundles) :
                      uiBundles'[i].isExpanded # uiBundles[i].isExpanded}) <= 1]_vars

\* C10: the minimum of maxBundles over a bundle's components (0 without
\* components) marks as limiting the components equal to it, so every expanded
\* bundle with a component shows a limiting component, for any list the route
\* returns.
C10_LimitingShown ==
  \A i \in 1..Len(uiBundles) :
    LET entry == uiBundles[i] IN
    /\ (Len(entry.bundle.components) = 0 => MinMaxBundles(entry.bundle) = Num(0))
    /\ (/\ TableShown /\ MatchesQuery(entry.bundle, searchQuery)
        /\ entry.isExpanded /\ Len(entry.bundle.components) > 0
        => \E r \in 1..Len(getTableItems) :
             /\ getTableItems[r].type = "component"
             /\ getTableItems[r].id[1] = entry.bundle.id
             /\ getTableItems[r].isLimiting)

====
